---------------------------- MODULE Spec2Model ----------------------------
(***************************************************************************)
(* A model of the k-d tree of namespace KDtree (src/unnamed/part_000):     *)
(* the size-capped result map Cache, the weighted point, and the kdtree    *)
(* with its median build (make_tree), its N-nearest-neighbour search       *)
(* (nearestN) and its level partition (getPartition).                      *)
(*                                                                         *)
(* Vectors are functions over 0..n-1, so an index of the model is the      *)
(* index of the source.  A node* is the index of the node in nodes_, and   *)
(* nullptr is the value of the definition nullptr.  Coordinates are small  *)
(* naturals, on which double arithmetic is exact.                          *)
(***************************************************************************)
EXTENDS Integers, Sequences, FiniteSets, TLC

VARIABLES
    input,      \* the caller's point sequence handed to the constructor
    pc,         \* "start" before construction, "built" after it
    nodes_,     \* kdtree::nodes_  : 0..n-1 -> node
    root_,      \* kdtree::root_   : index into nodes_ or nullptr
    visited_,   \* kdtree::visited_
    ret,        \* what the last public operation handed back to its caller
    prev,       \* what the operation before the last handed back
    calls,      \* the number of calls the caller has still to make
    par,        \* the nearestN calls of concurrent threads, step by step
    cache,      \* a stand-alone Cache<double, node*> object
    adds        \* the (key, value) pairs passed to cache.add so far

vars == <<input, pc, nodes_, root_, visited_, ret, prev, calls, cache, adds, par>>

treeVars == <<input, pc, nodes_, root_, visited_, ret, prev, calls, par>>

cacheVars == <<cache, adds, par>>

----------------------------------------------------------------------------
(* Bounds of the model *)

MaxPts == 4

MaxN == 3

MaxLevel == 2

MaxAdds == 4

MaxKey == 2

MaxSeqPts == 2
MaxRadPts == 4

(* Program constants *)

dimensions == 2

nullptr == -1

----------------------------------------------------------------------------
(* point<coordinate_type, dimensions> *)

\* the coordinate values the model draws points and query points from
XCoords == {0, 1, 2}

YCoords == {0, 1}

CoordTuples == {<<x, y>> : x \in XCoords, y \in YCoords}

\* point(c, m, indx): the constructor stores its arguments
point(c, m, indx) == [coords_ |-> c, mass_ |-> m, indx_ |-> indx]

\* point::get(index), index zero based
get(p, index) == p.coords_[index + 1]

RECURSIVE distanceFrom(_, _, _)
distanceFrom(p, pt, i) ==
    IF i >= dimensions THEN 0
    ELSE LET d == get(p, i) - get(pt, i)
         IN  d * d + distanceFrom(p, pt, i + 1)

\* point::distance(pt): the squared distance
distance(p, pt) == distanceFrom(p, pt, 0)

\* kdtree::node(pt)
node(pt) == [point_ |-> pt, left_ |-> nullptr, right_ |-> nullptr]

\* a comparator that orders by the first coordinate whatever the axis
node_cmp_axis0(index, n1, n2) == get(n1.point_, 0) < get(n2.point_, 0)

\* node_cmp(index)(n1, n2)
node_cmp(index, n1, n2) == get(n1.point_, index) < get(n2.point_, index)

----------------------------------------------------------------------------
(* std::nth_element as libstdc++ computes it (bits/stl_algo.h), on the     *)
(* vector a, over the range [first, last), with comparator node_cmp(index) *)

iter_swap(a, i, j) == [a EXCEPT ![i] = a[j], ![j] = a[i]]

\* std::__lg(n): floor(log2(n)) for n >= 1
RECURSIVE lg(_)
lg(n) == IF n <= 1 THEN 0 ELSE 1 + lg(n \div 2)

move_median_to_first(a, result, x, y, z, index) ==
    IF node_cmp(index, a[x], a[y])
    THEN IF node_cmp(index, a[y], a[z]) THEN iter_swap(a, result, y)
         ELSE IF node_cmp(index, a[x], a[z]) THEN iter_swap(a, result, z)
         ELSE iter_swap(a, result, x)
    ELSE IF node_cmp(index, a[x], a[z]) THEN iter_swap(a, result, x)
         ELSE IF node_cmp(index, a[y], a[z]) THEN iter_swap(a, result, z)
         ELSE iter_swap(a, result, y)

\* while (comp(first, pivot)) ++first;
RECURSIVE scan_up(_, _, _, _)
scan_up(a, first, pivot, index) ==
    IF node_cmp(index, a[first], a[pivot])
    THEN scan_up(a, first + 1, pivot, index)
    ELSE first

\* while (comp(pivot, last)) --last;
RECURSIVE scan_down(_, _, _, _)
scan_down(a, last, pivot, index) ==
    IF node_cmp(index, a[pivot], a[last])
    THEN scan_down(a, last - 1, pivot, index)
    ELSE last

RECURSIVE unguarded_partition(_, _, _, _, _)
unguarded_partition(a, first, last, pivot, index) ==
    LET f == scan_up(a, first, pivot, index)
        l == scan_down(a, last - 1, pivot, index)
    IN  IF ~(f < l) THEN [a |-> a, cut |-> f]
        ELSE unguarded_partition(iter_swap(a, f, l), f + 1, l, pivot, index)

unguarded_partition_pivot(a, first, last, index) ==
    LET mid == first + (last - first) \div 2
        b   == move_median_to_first(a, first, first + 1, mid, last - 1, index)
    IN  unguarded_partition(b, first + 1, last, first, index)

\* the inner loop of insertion sort: the value val, taken out of position
\* hole, moves down while it compares less than the element below it and
\* the bottom of the range is not reached
RECURSIVE linear_insert(_, _, _, _, _)
linear_insert(a, first, hole, val, index) ==
    IF hole > first /\ node_cmp(index, val, a[hole - 1])
    THEN linear_insert([a EXCEPT ![hole] = a[hole - 1]], first, hole - 1, val, index)
    ELSE [a EXCEPT ![hole] = val]

RECURSIVE insertion_sort_from(_, _, _, _, _)
insertion_sort_from(a, first, i, last, index) ==
    IF i >= last THEN a
    ELSE insertion_sort_from(linear_insert(a, first, i, a[i], index),
                             first, i + 1, last, index)

insertion_sort(a, first, last, index) ==
    IF first = last THEN a
    ELSE insertion_sort_from(a, first, first + 1, last, index)

\* std::__push_heap: the value moves up from the hole while its parent
\* compares less than it and the top of the heap is not reached
RECURSIVE push_heap(_, _, _, _, _, _)
push_heap(a, first, holeIndex, topIndex, value, index) ==
    IF holeIndex > topIndex
       /\ node_cmp(index, a[first + (holeIndex - 1) \div 2], value)
    THEN push_heap([a EXCEPT ![first + holeIndex] = a[first + (holeIndex - 1) \div 2]],
                   first, (holeIndex - 1) \div 2, topIndex, value, index)
    ELSE [a EXCEPT ![first + holeIndex] = value]

\* the first loop of std::__adjust_heap: the hole moves down to the larger
\* child while there are two children
RECURSIVE adjust_heap_down(_, _, _, _, _, _)
adjust_heap_down(a, first, holeIndex, secondChild, len, index) ==
    IF secondChild < (len - 1) \div 2
    THEN LET c == 2 * (secondChild + 1)
             s == IF node_cmp(index, a[first + c], a[first + (c - 1)])
                  THEN c - 1 ELSE c
         IN  adjust_heap_down([a EXCEPT ![first + holeIndex] = a[first + s]],
                              first, s, s, len, index)
    ELSE [a |-> a, holeIndex |-> holeIndex, secondChild |-> secondChild]

\* std::__adjust_heap(first, holeIndex, len, value, comp)
adjust_heap(a, first, holeIndex, len, value, index) ==
    LET d == adjust_heap_down(a, first, holeIndex, holeIndex, len, index)
        c == 2 * (d.secondChild + 1)
        e == IF len % 2 = 0 /\ d.secondChild = (len - 2) \div 2
             THEN [a |-> [d.a EXCEPT ![first + d.holeIndex] = d.a[first + (c - 1)]],
                   holeIndex |-> c - 1]
             ELSE [a |-> d.a, holeIndex |-> d.holeIndex]
    IN  push_heap(e.a, first, e.holeIndex, holeIndex, value, index)

\* the loop of std::__make_heap, from parent down to 0
RECURSIVE make_heap_from(_, _, _, _, _)
make_heap_from(a, first, len, parent, index) ==
    LET b == adjust_heap(a, first, parent, len, a[first + parent], index)
    IN  IF parent = 0 THEN b
        ELSE make_heap_from(b, first, len, parent - 1, index)

\* std::__make_heap(first, last, comp)
make_heap(a, first, last, index) ==
    IF last - first < 2 THEN a
    ELSE make_heap_from(a, first, last - first, (last - first - 2) \div 2, index)

\* std::__pop_heap(first, last, result, comp)
pop_heap(a, first, last, result, index) ==
    adjust_heap([a EXCEPT ![result] = a[first]], first, 0, last - first,
                a[result], index)

\* the loop of std::__heap_select over [i, last)
RECURSIVE heap_select_from(_, _, _, _, _, _)
heap_select_from(a, first, middle, i, last, index) ==
    IF i >= last THEN a
    ELSE heap_select_from(IF node_cmp(index, a[i], a[first])
                          THEN pop_heap(a, first, middle, i, index)
                          ELSE a,
                          first, middle, i + 1, last, index)

\* std::__heap_select(first, middle, last, comp)
heap_select(a, first, middle, last, index) ==
    heap_select_from(make_heap(a, first, middle, index),
                     first, middle, middle, last, index)

\* std::__introselect(first, nth, last, depth_limit, comp)
RECURSIVE introselect(_, _, _, _, _, _)
introselect(a, first, nth, last, depth_limit, index) ==
    IF last - first > 3
    THEN IF depth_limit = 0
         THEN iter_swap(heap_select(a, first, nth + 1, last, index), first, nth)
         ELSE LET r == unguarded_partition_pivot(a, first, last, index)
              IN  IF r.cut <= nth
                  THEN introselect(r.a, r.cut, nth, last, depth_limit - 1, index)
                  ELSE introselect(r.a, first, nth, r.cut, depth_limit - 1, index)
    ELSE insertion_sort(a, first, last, index)

nth_element(a, first, nth, last, index) ==
    IF first = last \/ nth = last THEN a
    ELSE introselect(a, first, nth, last, lg(last - first) * 2, index)

----------------------------------------------------------------------------
(* kdtree: construction *)

\* a split at the first node of the range
middle_first(begin, end) == begin

\* size_t n = begin + (end - begin)/2
middle(begin, end) == begin + (end - begin) \div 2
\* a make_tree that does not attach the left subtree to its node
RECURSIVE make_tree_no_left(_, _, _, _)
make_tree_no_left(a, begin, end, index) ==
    IF end <= begin THEN [nodes |-> a, root |-> nullptr]
    ELSE LET n      == begin + (end - begin) \div 2
             a1     == nth_element(a, begin, n, end, index)
             index1 == (index + 1) % dimensions
             L      == make_tree_no_left(a1, begin, n, index1)
             R      == make_tree_no_left(L.nodes, n + 1, end, index1)
             a3     == [R.nodes EXCEPT ![n].right_ = R.root]
         IN  [nodes |-> a3, root |-> n]
\* make_tree(begin, end, index) on the vector a: the vector afterwards and
\* the node* returned
RECURSIVE make_tree(_, _, _, _)
make_tree(a, begin, end, index) ==
    IF end <= begin THEN [nodes |-> a, root |-> nullptr]
    ELSE LET n      == middle(begin, end)
             a1     == nth_element(a, begin, n, end, index)
             index1 == (index + 1) % dimensions
             L      == make_tree(a1, begin, n, index1)
             a2     == [L.nodes EXCEPT ![n].left_ = L.root]
             R      == make_tree(a2, n + 1, end, index1)
             a3     == [R.nodes EXCEPT ![n].right_ = R.root]
         IN  [nodes |-> a3, root |-> n]

\* nodes_.emplace_back(*i) for every i of [begin, end)
emplace_all(in) == [i \in 0..(Len(in) - 1) |-> node(in[i + 1])]

size(a) == Cardinality(DOMAIN a)

\* kdtree::empty()
empty == size(nodes_) = 0


----------------------------------------------------------------------------
(* Cache<key_t, value_t> : std::map<key_t, value_t> with a size cap.  The  *)
(* map is a function from its keys to their values; its iteration order is *)
(* the order of the keys.                                                  *)

EmptyMap == [k \in {} |-> nullptr]

\* Cache(N)
Cache(N) == [map |-> EmptyMap, max_size |-> N]

\* this->size() > max_size, size_t against int: the int converts to size_t,
\* so that a negative max_size is larger than every size
size_gt(sz, n) == IF n < 0 THEN FALSE ELSE sz > n

\* best_.size() < N, size_t against int
size_lt(sz, n) == IF n < 0 THEN TRUE ELSE sz < n

\* best_.size() >= N, size_t against int
size_ge(sz, n) == ~size_lt(sz, n)

\* begin()->first and rbegin()->first of a non-empty map
begin_key(m) == CHOOSE k \in DOMAIN m : \A j \in DOMAIN m : k <= j

rbegin_key(m) == CHOOSE k \in DOMAIN m : \A j \in DOMAIN m : j <= k

\* (*this)[key] = value
map_assign(m, key, value) ==
    [k \in (DOMAIN m) \cup {key} |-> IF k = key THEN value ELSE m[k]]

\* an erase of the first entry instead of the last
erase_first(m) == [k \in (DOMAIN m) \ {begin_key(m)} |-> m[k]]

\* this->erase(--(*this).end())
erase_last(m) == [k \in (DOMAIN m) \ {rbegin_key(m)} |-> m[k]]

\* Cache::add(key, value)
Cache_add(c, key, value) ==
    LET m1 == map_assign(c.map, key, value)
    IN  IF size_gt(size(m1), c.max_size)
        THEN [c EXCEPT !.map = erase_last(m1)]
        ELSE [c EXCEPT !.map = m1]

\* a resize that drops the entries beyond the new capacity
Cache_resize_trim(c, N) ==
    [map |-> [k \in {x \in DOMAIN c.map :
                         Cardinality({j \in DOMAIN c.map : j < x}) < N} |-> c.map[k]],
     max_size |-> N]
\* Cache::resize(N)
Cache_resize(c, N) == [c EXCEPT !.max_size = N]

----------------------------------------------------------------------------
(* kdtree: the N nearest points *)

\* What dereferencing a null node*, or the end() of an empty map, can do: the process is killed by the
\* signal, or the read goes through and yields the zero bytes of page zero
\* (id 0, both children nullptr; key 0, value nullptr).
UBOutcomes == {"segv", "zeropage"}

ZeroNode == [point_ |-> [coords_ |-> <<0, 0>>, mass_ |-> 0, indx_ |-> 0],
             left_ |-> nullptr, right_ |-> nullptr]

\* *root
deref(root) == IF root = nullptr THEN ZeroNode ELSE nodes_[root]

\* best_.rbegin()->first; of an empty map it is read where no entry is
last_key(m) == IF DOMAIN m = {} THEN 0 ELSE rbegin_key(m)

\* an offer test that lets a node as far as the farthest entry in
offered_le(best_, d, N) ==
    size_lt(size(best_.map), N) \/ d <= last_key(best_.map)
\* best_.size()<N || d < best_.rbegin()->first
offered(best_, d, N) ==
    size_lt(size(best_.map), N) \/ d < last_key(best_.map)

\* the operand d < best_.rbegin()->first is evaluated on an empty map
offered_reads_end(best_, N) ==
    ~size_lt(size(best_.map), N) /\ DOMAIN best_.map = {}

\* a far subtree skipped once the near key is beaten
prune_nearest(best_, dx, N) ==
    size_ge(size(best_.map), N) /\ dx * dx >= begin_key(best_.map)

\* best_.size()>=N and dx * dx >= best_.rbegin()->first
prune(best_, dx, N) ==
    size_ge(size(best_.map), N) /\ dx * dx >= last_key(best_.map)

\* the operand dx * dx >= best_.rbegin()->first is evaluated on an empty map
prune_reads_end(best_, N) ==
    size_ge(size(best_.map), N) /\ DOMAIN best_.map = {}

\* a near side that takes the left child at dx = 0 as well
near_child_ge(nd, dx) == IF dx >= 0 THEN nd.left_ ELSE nd.right_

\* dx > 0 ? root->left_ : root->right_
near_child(nd, dx) == IF dx > 0 THEN nd.left_ ELSE nd.right_

\* a search that stays on the axis it is on
rotate_not(index) == index

\* index = (index + 1) % dimensions, in the search
rotate(index) == (index + 1) % dimensions
\* a far child that is the near child again
far_child_near(nd, dx) == IF dx > 0 THEN nd.left_ ELSE nd.right_
\* dx > 0 ? root->right_ : root->left_
far_child(nd, dx) == IF dx > 0 THEN nd.right_ ELSE nd.left_

\* a search that goes on counting where the call before it stopped
search_accumulating(N, v) ==
    [best_ |-> Cache(N), visited_ |-> visited_ + v, killed |-> FALSE, events |-> <<>>]

\* the search state before the first node: the caller's empty result set and
\* the counter as the caller has set it; events is the record of what the
\* search does, in order
search_start(N, v) ==
    [best_ |-> Cache(N), visited_ |-> v, killed |-> FALSE, events |-> <<>>]

\* the record of a node visit: the node, the axis, its squared distance,
\* the size and largest key of the result set it met, whether it was
\* offered to the set, the size of the set afterwards and whether the set
\* is as it was
visit_event(root, index, d, before, off, after) ==
    [e |-> "visit", node |-> root, index |-> index, d |-> d,
     size |-> size(before.map), worst |-> last_key(before.map),
     offered |-> off, after |-> size(after.map), same |-> (after = before)]

\* the record of a pruning test: the node, dx, the size and largest key of
\* the result set at the test, the far child and whether it was skipped
test_event(root, dx, best_, far, skip) ==
    [e |-> "test", node |-> root, dx |-> dx, size |-> size(best_.map),
     worst |-> last_key(best_.map), far |-> far, skip |-> skip]

\* the private, recursive nearestN(root, point, index, N, best_); s carries
\* best_ and visited_ through the recursion, ub is what a read of the end of
\* an empty map does
RECURSIVE nearestN_rec(_, _, _, _, _, _)
nearestN_rec(root, pt, index, N, s, ub) ==
    IF s.killed \/ root = nullptr THEN s
    ELSE LET nd     == nodes_[root]
             d      == distance(nd.point_, pt)
             s1     == [s EXCEPT !.visited_ = @ + 1]
             off    == offered(s1.best_, d, N)
             b2     == IF off THEN Cache_add(s1.best_, d, root) ELSE s1.best_
             s2     == [s1 EXCEPT !.best_ = b2,
                                  !.events = Append(@, visit_event(root, index, d,
                                                                   s1.best_, off, b2))]
             dx     == get(nd.point_, index) - get(pt, index)
             index1 == rotate(index)
             near   == near_child(nd, dx)
             far    == far_child(nd, dx)
             s3     == nearestN_rec(near, pt, index1, N, s2, ub)
             skip   == prune(s3.best_, dx, N)
             s4     == [s3 EXCEPT !.events = Append(@, test_event(root, dx, s3.best_,
                                                                  far, skip))]
         IN  IF offered_reads_end(s1.best_, N) /\ ub = "segv"
             THEN [s1 EXCEPT !.killed = TRUE]
             ELSE IF s3.killed THEN s3
             ELSE IF prune_reads_end(s3.best_, N) /\ ub = "segv"
             THEN [s3 EXCEPT !.killed = TRUE]
             ELSE IF skip THEN s4
             ELSE nearestN_rec(far, pt, index1, N, s4, ub)

\* the outcomes of the search from the root: what undefined behaviour does
\* matters only to a search that comes to it
searches(pt, N) ==
    UNION {IF s.killed
           THEN {s, nearestN_rec(root_, pt, 0, N, search_start(N, 0), "zeropage")}
           ELSE {s}
           : s \in {nearestN_rec(root_, pt, 0, N, search_start(N, 0), "segv")}}

\* best_.begin(): the first entry of the map, key and value
first_entry(m) ==
    IF DOMAIN m = {} THEN <<0, nullptr>> ELSE <<begin_key(m), m[begin_key(m)]>>

\* std::sqrt(k) of a natural k.  The root is kept as its integer part and
\* the remainder k - floor^2, which together determine the real number.
isqrt(k) == CHOOSE r \in 0..k : r * r <= k /\ (r + 1) * (r + 1) > k

sqrt(k) == [floor |-> isqrt(k), rem |-> k - isqrt(k) * isqrt(k)]

\* a sum that counts the entries instead of adding their masses
sum_count(m, keys) == Cardinality(keys)

\* for (auto b : best_) wgt += b.second->point_.mass()
RECURSIVE sum_mass(_, _)
sum_mass(m, keys) ==
    IF keys = {} THEN 0
    ELSE LET k == CHOOSE x \in keys : \A y \in keys : x <= y
         IN  deref(m[k]).point_.mass_ + sum_mass(m, keys \ {k})

\* what a public operation hands back; the fields an operation does not
\* produce keep the values of NoRet
NoRet ==
    [op |-> "none", status |-> "none", what |-> "", pt |-> <<>>, N |-> 0,
     level |-> 0, point |-> <<>>, wgt |-> 0, radius |-> sqrt(0),
     best_ |-> Cache(0), pts |-> <<>>, buckets |-> <<>>, events |-> <<>>,
     dist |-> <<>>, isempty |-> FALSE, count |-> 0, writes |-> {}]

----------------------------------------------------------------------------
(* kdtree: the level partition *)

\* a bucket count of level + 1
shl1_plus(level) == level + 1
\* 1 << level
shl1(level) == 2 ^ level

\* ret[cur].push_back(id); writes keeps the indices written to
push_back(w, cur, id) ==
    [w EXCEPT !.ret = IF cur \in DOMAIN @ THEN [@ EXCEPT ![cur] = Append(@, id)] ELSE @,
              !.writes = @ \cup {cur}]

\* accum(root, ret, cur); w carries ret and whether the process was killed
RECURSIVE accum(_, _, _, _)
accum(root, w, cur, ub) ==
    IF w.killed THEN w
    ELSE IF root = nullptr /\ ub = "segv" THEN [w EXCEPT !.killed = TRUE]
    ELSE LET nd == deref(root)
             w1 == push_back(w, cur, nd.point_.indx_)
             w2 == IF nd.left_ # nullptr THEN accum(nd.left_, w1, cur, ub) ELSE w1
         IN  IF nd.right_ # nullptr THEN accum(nd.right_, w2, cur, ub) ELSE w2

\* a walk that gives the left child the odd bucket and the right the even
RECURSIVE walk_swapped(_, _, _, _, _, _)
walk_swapped(root, w, cur, lev, level, ub) ==
    IF w.killed THEN w
    ELSE IF lev = level THEN accum(root, w, cur, ub)
    ELSE IF root = nullptr /\ ub = "segv" THEN [w EXCEPT !.killed = TRUE]
    ELSE LET nd == deref(root)
             w1 == push_back(w, cur, nd.point_.indx_)
             w2 == walk_swapped(nd.left_, w1, 2 * cur + 1, lev + 1, level, ub)
         IN  walk_swapped(nd.right_, w2, 2 * cur + 0, lev + 1, level, ub)
\* walk(root, ret, cur, lev, level)
RECURSIVE walk(_, _, _, _, _, _)
walk(root, w, cur, lev, level, ub) ==
    IF w.killed THEN w
    ELSE IF lev = level THEN accum(root, w, cur, ub)
    ELSE IF root = nullptr /\ ub = "segv" THEN [w EXCEPT !.killed = TRUE]
    ELSE LET nd == deref(root)
             w1 == push_back(w, cur, nd.point_.indx_)
             w2 == walk(nd.left_, w1, 2 * cur + 0, lev + 1, level, ub)
         IN  walk(nd.right_, w2, 2 * cur + 1, lev + 1, level, ub)

----------------------------------------------------------------------------
(* The state machine *)

\* two threads that call nearestN on the one tree
Threads == {1, 2}

\* a thread that has not called yet.  stack holds the activations of the
\* recursive nearestN, tmp the value of visited_ the thread has loaded for
\* its increment, visits the number of nodes the thread has entered and
\* seen these nodes in order; overlapped records that the call ran while a
\* call of the other thread ran
NoThread ==
    [pc |-> "idle", pt |-> <<>>, N |-> 0, stack |-> <<>>, tmp |-> 0,
     visits |-> 0, seen |-> <<>>, overlapped |-> FALSE, ret |-> NoRet]

\* the result set of every call is a local of the call
NoPar == [th |-> [t \in Threads |-> NoThread], best_ |-> [t \in Threads |-> Cache(0)]]
\* the point sequences a caller builds a tree from: the point at position i
\* carries id i - 1 and mass i
Inputs ==
    UNION {{[i \in 1..n |-> point(cs[i], i, i - 1)] : cs \in [1..n -> CoordTuples]}
           : n \in 0..MaxPts}

QueryPoints == {point(c, 1, 0) : c \in CoordTuples}

InitCache == Cache(1)

Init ==
    /\ input \in Inputs
    /\ pc = "start"
    /\ nodes_ = <<>>
    /\ root_ = nullptr
    /\ visited_ = 0
    /\ ret = NoRet
    /\ prev = NoRet
    /\ calls = 1
    /\ cache = InitCache
    /\ adds = <<>>
    /\ par = NoPar

\* kdtree(begin, end)
Construct ==
    /\ pc = "start"
    /\ \E t \in {make_tree(emplace_all(input), 0, Len(input), 0)} :
           /\ nodes_' = t.nodes
           /\ root_' = t.root
    /\ visited_' = 0
    /\ pc' = "built"
    /\ UNCHANGED <<input, ret, prev, calls, cache, adds, par>>

\* The result of a call is bound by \E over a one-element set, so that it
\* is computed once.

\* the caller has built the tree, has a call to make, and its process has
\* survived the call before
idle == pc = "built" /\ calls > 0 /\ ret.status # "killed"

\* the caller keeps the return value of its call before this one
call_made == prev' = ret /\ calls' = calls - 1

\* a point list that holds the nearest point only
point_list_first(m, keys) ==
    IF keys = {} THEN <<>> ELSE <<deref(first_entry(m)[2]).point_>>
\* for (auto b : best_) pts.push_back(b.second->point_)
RECURSIVE point_list(_, _)
point_list(m, keys) ==
    IF keys = {} THEN <<>>
    ELSE LET k == CHOOSE x \in keys : \A y \in keys : x <= y
         IN  <<deref(m[k]).point_>> \o point_list(m, keys \ {k})

\* a call on the empty tree that returns an empty result
empty_result(op, pt, N) ==
    [NoRet EXCEPT !.op = op, !.status = "ok", !.pt = pt, !.N = N, !.best_ = Cache(N)]
\* throw std::logic_error("tree is empty")
tree_is_empty(op, pt, N) ==
    [NoRet EXCEPT !.op = op, !.status = "logic_error",
                  !.what = "tree is empty", !.pt = pt, !.N = N]

\* a call that the process does not survive
killed_call(op, pt, N) ==
    [NoRet EXCEPT !.op = op, !.status = "killed", !.pt = pt, !.N = N]

\* the return value of nearestN(pt, N) after the search s
nearestN_return(pt, N, s) ==
    [NoRet EXCEPT !.op = "nearestN", !.status = "ok", !.pt = pt, !.N = N,
                  !.point = deref(first_entry(s.best_.map)[2]).point_,
                  !.wgt = sum_mass(s.best_.map, DOMAIN s.best_.map),
                  !.radius = sqrt(last_key(s.best_.map)),
                  !.best_ = s.best_, !.events = s.events]

\* the return value of nearestList(pt, N) after the search s
nearestList_return(pt, N, s) ==
    [NoRet EXCEPT !.op = "nearestList", !.status = "ok", !.pt = pt, !.N = N,
                  !.pts = point_list(s.best_.map, DOMAIN s.best_.map),
                  !.radius = sqrt(last_key(s.best_.map)),
                  !.best_ = s.best_, !.events = s.events]

\* the public nearestN(pt, N)
nearestN(pt, N) ==
    /\ idle
    /\ call_made
    /\ IF root_ = nullptr
       THEN /\ ret' = tree_is_empty("nearestN", pt, N)
            /\ UNCHANGED visited_
       ELSE \E s \in searches(pt, N) :
                /\ visited_' = s.visited_
                /\ ret' = IF s.killed THEN killed_call("nearestN", pt, N)
                          ELSE nearestN_return(pt, N, s)
    /\ UNCHANGED <<input, pc, nodes_, root_, cache, adds, par>>

\* nearestList(pt, N)
nearestList(pt, N) ==
    /\ idle
    /\ call_made
    /\ IF root_ = nullptr
       THEN /\ ret' = tree_is_empty("nearestList", pt, N)
            /\ UNCHANGED visited_
       ELSE \E s \in searches(pt, N) :
                /\ visited_' = s.visited_
                /\ ret' = IF s.killed THEN killed_call("nearestList", pt, N)
                          ELSE nearestList_return(pt, N, s)
    /\ UNCHANGED <<input, pc, nodes_, root_, cache, adds, par>>

\* getPartition(level); ub is what the dereference of a null node* does,
\* should the walk come to one
getPartition(level, ub) ==
    /\ idle
    /\ call_made
    /\ LET partitions == shl1(level)
           w0 == [ret |-> [i \in 0..(partitions - 1) |-> <<>>], killed |-> FALSE,
                  writes |-> {}]
       IN  \E w \in {walk(root_, w0, 0, 0, level, ub)} :
           ret' = IF w.killed
                  THEN [NoRet EXCEPT !.op = "getPartition", !.status = "killed",
                                     !.level = level, !.writes = w.writes]
                  ELSE [NoRet EXCEPT !.op = "getPartition", !.status = "ok",
                                     !.level = level, !.buckets = w.ret,
                                     !.writes = w.writes]
    /\ UNCHANGED <<input, pc, nodes_, root_, visited_, cache, adds, par>>

\* for (auto v : best_) ret.push_back(v.first)
RECURSIVE key_list(_, _)
key_list(m, keys) ==
    IF keys = {} THEN <<>>
    ELSE LET k == CHOOSE x \in keys : \A y \in keys : x <= y
         IN  <<k>> \o key_list(m, keys \ {k})

\* getDist(best_), on the result set the last search handed back
getDist ==
    /\ idle
    /\ call_made
    /\ ret.op \in {"nearestN", "nearestList"}
    /\ ret.status = "ok"
    /\ ret' = [NoRet EXCEPT !.op = "getDist", !.status = "ok",
                            !.best_ = ret.best_,
                            !.dist = key_list(ret.best_.map, DOMAIN ret.best_.map)]
    /\ UNCHANGED <<input, pc, nodes_, root_, visited_, cache, adds, par>>

\* an empty() that empties the tree
empty_clearing ==
    /\ idle
    /\ call_made
    /\ ret' = [NoRet EXCEPT !.op = "empty", !.status = "ok", !.isempty = empty]
    /\ nodes_' = <<>>
    /\ root_' = nullptr
    /\ UNCHANGED <<input, pc, visited_, cache, adds, par>>
\* empty(), as a call
call_empty ==
    /\ idle
    /\ call_made
    /\ ret' = [NoRet EXCEPT !.op = "empty", !.status = "ok", !.isempty = empty]
    /\ UNCHANGED <<input, pc, nodes_, root_, visited_, cache, adds, par>>

\* visited()
call_visited ==
    /\ idle
    /\ call_made
    /\ ret' = [NoRet EXCEPT !.op = "visited", !.status = "ok", !.count = visited_]
    /\ UNCHANGED <<input, pc, nodes_, root_, visited_, cache, adds, par>>

Next ==
    \/ Construct
    \/ \E pt \in QueryPoints, N \in 1..MaxN : nearestN(pt, N)
    \/ \E pt \in QueryPoints, N \in 1..MaxN : nearestList(pt, N)
    \/ \E level \in 0..MaxLevel, ub \in UBOutcomes : getPartition(level, ub)

Spec == Init /\ [][Next]_vars

----------------------------------------------------------------------------
(* A caller that makes two calls on the tree it has built *)

SeqInputs == {in \in Inputs : Len(in) <= MaxSeqPts}

InitSeq ==
    /\ input \in SeqInputs
    /\ pc = "start"
    /\ nodes_ = <<>>
    /\ root_ = nullptr
    /\ visited_ = 0
    /\ ret = NoRet
    /\ prev = NoRet
    /\ calls = 2
    /\ cache = InitCache
    /\ adds = <<>>
    /\ par = NoPar

NextSeq ==
    \/ Construct
    \/ \E pt \in QueryPoints, N \in 1..MaxN : nearestN(pt, N)
    \/ \E pt \in QueryPoints, N \in 1..MaxN : nearestList(pt, N)
    \/ \E level \in 0..MaxLevel, ub \in UBOutcomes : getPartition(level, ub)
    \/ getDist
    \/ call_empty
    \/ call_visited

SpecSeq == InitSeq /\ [][NextSeq]_vars

----------------------------------------------------------------------------
(* A caller that asks nearestN for the neighbours of one point and then    *)
(* asks again, for the same point and for at least as many neighbours      *)

\* the positions of the caller's points: two columns of three, so that a
\* subtree beyond a splitting plane can hold points at several distances
RadCoordTuples == {<<x, y>> : x \in {0, 1}, y \in {0, 1, 2}}

RadInputs ==
    UNION {{[i \in 1..n |-> point(cs[i], i, i - 1)] : cs \in [1..n -> RadCoordTuples]}
           : n \in 0..MaxRadPts}

RadQueryPoints == {point(<<0, 0>>, 1, 0), point(<<1, 0>>, 1, 0)}

InitRad ==
    /\ input \in RadInputs
    /\ pc = "start"
    /\ nodes_ = <<>>
    /\ root_ = nullptr
    /\ visited_ = 0
    /\ ret = NoRet
    /\ prev = NoRet
    /\ calls = 2
    /\ cache = InitCache
    /\ adds = <<>>
    /\ par = NoPar

\* the caller's second call repeats the point of its first and asks for no
\* fewer neighbours
asks_again(pt, N) == ret.op = "nearestN" => (pt = ret.pt /\ ret.N <= N)

NextRad ==
    \/ Construct
    \/ \E pt \in RadQueryPoints, N \in 1..MaxN :
           asks_again(pt, N) /\ nearestN(pt, N)

SpecRad == InitRad /\ [][NextRad]_vars

----------------------------------------------------------------------------
(* A caller that asks for no neighbour, or for a negative number of them *)

BadNs == {-1, 0}

NextBadN ==
    \/ Construct
    \/ \E pt \in QueryPoints, N \in BadNs : nearestN(pt, N)
    \/ \E pt \in QueryPoints, N \in BadNs : nearestList(pt, N)

SpecBadN == Init /\ [][NextBadN]_vars

----------------------------------------------------------------------------
(* Two threads that call nearestN on the same tree.  A step of a thread is *)
(* one access to the shared counter visited_, together with the work on    *)
(* the thread's own locals and on the tree, which no thread writes, up to  *)
(* its next access to the counter.                                         *)

MaxParPts == 2

ParInputs == {in \in Inputs : Len(in) <= MaxParPts}

\* the points the threads ask about: a corner and an inner point
ParQueryPoints == {point(<<0, 0>>, 1, 0), point(<<1, 1>>, 1, 0)}

\* the numbers of neighbours the threads ask for
ParNs == {1, 2}

InitPar ==
    /\ input \in ParInputs
    /\ pc = "start"
    /\ nodes_ = <<>>
    /\ root_ = nullptr
    /\ visited_ = 0
    /\ ret = NoRet
    /\ prev = NoRet
    /\ calls = 0
    /\ cache = InitCache
    /\ adds = <<>>
    /\ par = NoPar

\* one result set for the calls of all threads
best_shared(t) == 1

\* cache best_(N): the result set the call of thread t works on is its own
best_of(t) == t

\* an activation of nearestN(root, point, index, N, best_): entered, or in
\* the call for the near child, or in the call for the far child
frame(root, index, stage, dx) ==
    [root |-> root, index |-> index, stage |-> stage, dx |-> dx]

\* the recursion from the return of a child up to the next node it enters:
\* an absent root returns, a returned near call is followed by the prune
\* test and the far call, a returned far call returns
RECURSIVE advance(_, _, _)
advance(stack, best_, N) ==
    IF stack = <<>> THEN stack
    ELSE LET top  == stack[Len(stack)]
             rest == SubSeq(stack, 1, Len(stack) - 1)
         IN  IF top.stage = "enter"
             THEN IF top.root = nullptr THEN advance(rest, best_, N) ELSE stack
             ELSE IF top.stage = "near"
             THEN IF prune(best_, top.dx, N) THEN advance(rest, best_, N)
                  ELSE advance(rest \o <<[top EXCEPT !.stage = "far"],
                                         frame(far_child(nodes_[top.root], top.dx),
                                               rotate(top.index), "enter", 0)>>,
                               best_, N)
             ELSE advance(rest, best_, N)

\* the call of thread u is under way
running(u) == par.th[u].pc \in {"load", "store"}

\* the threads th when thread t starts its call: the calls under way
\* overlap with it
started(t, th) ==
    [u \in Threads |->
        IF u = t THEN [th[u] EXCEPT !.overlapped = \E o \in Threads \ {t} : running(o)]
        ELSE [th[u] EXCEPT !.overlapped = @ \/ running(u)]]

\* a call that leaves the counter as the call before it left it
nearestN_call_no_reset(t, pt, N) ==
    /\ pc = "built"
    /\ par.th[t].pc = "idle"
    /\ IF root_ = nullptr
       THEN par' = [par EXCEPT !.th[t] = [@ EXCEPT !.pc = "done", !.pt = pt, !.N = N,
                                                  !.ret = tree_is_empty("nearestN", pt, N)]]
       ELSE par' = [par EXCEPT
                        !.th = started(t, [par.th EXCEPT ![t] =
                                   [@ EXCEPT !.pc = "load", !.pt = pt, !.N = N,
                                             !.stack = <<frame(root_, 0, "enter", 0)>>]]),
                        !.best_[best_of(t)] = Cache(N)]
    /\ UNCHANGED <<input, pc, nodes_, root_, visited_, ret, prev, calls, cache, adds>>

\* thread t calls nearestN(pt, N): the empty-tree test, cache best_(N),
\* visited_ = 0, and the call of the recursion on the root
nearestN_call(t, pt, N) ==
    /\ pc = "built"
    /\ par.th[t].pc = "idle"
    /\ IF root_ = nullptr
       THEN /\ par' = [par EXCEPT !.th[t] = [@ EXCEPT !.pc = "done", !.pt = pt, !.N = N,
                                                     !.ret = tree_is_empty("nearestN", pt, N)]]
            /\ UNCHANGED visited_
       ELSE /\ visited_' = 0
            /\ par' = [par EXCEPT
                           !.th = started(t, [par.th EXCEPT ![t] =
                                      [@ EXCEPT !.pc = "load", !.pt = pt, !.N = N,
                                                !.stack = <<frame(root_, 0, "enter", 0)>>]]),
                           !.best_[best_of(t)] = Cache(N)]
    /\ UNCHANGED <<input, pc, nodes_, root_, ret, prev, calls, cache, adds>>

\* ++visited_, first half: thread t loads the counter
nearestN_load(t) ==
    /\ par.th[t].pc = "load"
    /\ par' = [par EXCEPT !.th[t].tmp = visited_, !.th[t].pc = "store"]
    /\ UNCHANGED <<input, pc, nodes_, root_, visited_, ret, prev, calls, cache, adds>>

\* ++visited_, second half: thread t stores the counter; then the offer of
\* the node to the thread's result set, the near call, and the recursion up
\* to the next node or to the return of the public nearestN
nearestN_store(t) ==
    /\ par.th[t].pc = "store"
    /\ visited_' = par.th[t].tmp + 1
    /\ \E me \in {par.th[t]} :
       \E top \in {me.stack[Len(me.stack)]} :
       \E nd \in {nodes_[top.root]} :
       \E d \in {distance(nd.point_, me.pt)} :
       \E b \in {par.best_[best_of(t)]} :
       \E b2 \in {IF offered(b, d, me.N) THEN Cache_add(b, d, top.root) ELSE b} :
       \E dx \in {get(nd.point_, top.index) - get(me.pt, top.index)} :
       \E down \in {SubSeq(me.stack, 1, Len(me.stack) - 1)
                       \o <<[top EXCEPT !.stage = "near", !.dx = dx],
                              frame(near_child(nd, dx), rotate(top.index),
                                    "enter", 0)>>} :
       \E stack \in {advance(down, b2, me.N)} :
               par' = [par EXCEPT
                           !.best_[best_of(t)] = b2,
                           !.th[t] = [@ EXCEPT
                               !.stack = stack,
                               !.visits = @ + 1,
                               !.seen = Append(@, top.root),
                               !.pc = IF stack = <<>> THEN "done" ELSE "load",
                               !.ret = IF stack = <<>>
                                       THEN nearestN_return(me.pt, me.N,
                                                [best_ |-> b2, events |-> <<>>])
                                       ELSE @]]
    /\ UNCHANGED <<input, pc, nodes_, root_, ret, prev, calls, cache, adds>>

NextPar ==
    \/ Construct
    \/ \E t \in Threads, pt \in ParQueryPoints, N \in ParNs : nearestN_call(t, pt, N)
    \/ \E t \in Threads : nearestN_load(t)
    \/ \E t \in Threads : nearestN_store(t)

SpecPar == InitPar /\ [][NextPar]_vars
----------------------------------------------------------------------------
(* One thread that calls nearestN, step by step: the call runs on, without *)
(* cancellation, until it returns.                                         *)

MaxStepPts == 3

StepInputs == {in \in Inputs : Len(in) <= MaxStepPts}

InitStep ==
    /\ input \in StepInputs
    /\ pc = "start"
    /\ nodes_ = <<>>
    /\ root_ = nullptr
    /\ visited_ = 0
    /\ ret = NoRet
    /\ prev = NoRet
    /\ calls = 0
    /\ cache = InitCache
    /\ adds = <<>>
    /\ par = NoPar

NextStep ==
    \/ Construct
    \/ \E pt \in ParQueryPoints, N \in ParNs : nearestN_call(1, pt, N)
    \/ nearestN_load(1)
    \/ nearestN_store(1)

SpecStep ==
    /\ InitStep
    /\ [][NextStep]_vars
    /\ WF_vars(nearestN_load(1))
    /\ WF_vars(nearestN_store(1))
----------------------------------------------------------------------------
(* The state machine of a stand-alone Cache: constructed with a capacity,  *)
(* then a sequence of add() calls                                          *)

CacheKeys == 0..MaxKey

\* two node references
CacheValues == {0, 1}

InitC ==
    /\ input = <<>>
    /\ pc = "start"
    /\ nodes_ = <<>>
    /\ root_ = nullptr
    /\ visited_ = 0
    /\ ret = NoRet
    /\ prev = NoRet
    /\ calls = 0
    /\ cache \in {Cache(N) : N \in 1..MaxN}
    /\ adds = <<>>
    /\ par = NoPar

\* cache.add(key, value)
Add(key, value) ==
    /\ Len(adds) < MaxAdds
    /\ cache' = Cache_add(cache, key, value)
    /\ adds' = Append(adds, <<key, value>>)
    /\ UNCHANGED treeVars

NextC == \E key \in CacheKeys, value \in CacheValues : Add(key, value)

SpecC == InitC /\ [][NextC]_vars

----------------------------------------------------------------------------
(* A stand-alone Cache whose capacity the caller changes between adds *)

\* cache.resize(N); the return record keeps the new capacity and the number
\* of add() calls made before the resize
Resize(N) ==
    /\ cache' = Cache_resize(cache, N)
    /\ ret' = [NoRet EXCEPT !.op = "resize", !.status = "ok", !.N = N,
                            !.count = Len(adds)]
    /\ UNCHANGED <<input, pc, nodes_, root_, visited_, prev, calls, par, adds>>

NextR ==
    \/ \E key \in CacheKeys, value \in CacheValues : Add(key, value)
    \/ \E N \in 1..MaxN : Resize(N)

SpecR == InitC /\ [][NextR]_vars
----------------------------------------------------------------------------
(* Vocabulary of the properties *)

Min(a, b) == IF a < b THEN a ELSE b

\* the nodes of the subtree below the reference r
RECURSIVE subtree(_)
subtree(r) ==
    IF r = nullptr THEN {}
    ELSE {r} \cup subtree(nodes_[r].left_) \cup subtree(nodes_[r].right_)

\* the entries (key, value) of a map
Entries(m) == {<<k, m[k]>> : k \in DOMAIN m}

\* the elements of a finite set of numbers in ascending order
RECURSIVE Ascending(_)
Ascending(S) ==
    IF S = {} THEN <<>>
    ELSE LET k == CHOOSE x \in S : \A y \in S : x <= y
         IN  <<k>> \o Ascending(S \ {k})

\* the squared distances to q of the nodes I, in ascending order, one per node
RECURSIVE SortedDistances(_, _)
SortedDistances(I, q) ==
    IF I = {} THEN <<>>
    ELSE LET i == CHOOSE x \in I : \A y \in I :
                     distance(nodes_[x].point_, q) <= distance(nodes_[y].point_, q)
         IN  <<distance(nodes_[i].point_, q)>> \o SortedDistances(I \ {i}, q)

\* the keys passed to add(), in ascending order, one per call
RECURSIVE SortedKeys(_)
SortedKeys(I) ==
    IF I = {} THEN <<>>
    ELSE LET i == CHOOSE x \in I : \A y \in I : adds[x][1] <= adds[y][1]
         IN  <<adds[i][1]>> \o SortedKeys(I \ {i})

Prefix(sq, n) == SubSeq(sq, 1, Min(n, Len(sq)))

\* how often id occurs in the buckets b
Occurrences(b, id) ==
    Cardinality({<<c, i>> \in (DOMAIN b) \X (1..(size(nodes_) + shl1(MaxLevel + 1))) :
                    i <= Len(b[c]) /\ b[c][i] = id})

IndexedIds == {nodes_[i].point_.indx_ : i \in DOMAIN nodes_}

\* the ids of the subtree below r in pre-order
RECURSIVE PreOrder(_)
PreOrder(r) ==
    IF r = nullptr THEN <<>>
    ELSE <<nodes_[r].point_.indx_>> \o PreOrder(nodes_[r].left_)
                                    \o PreOrder(nodes_[r].right_)

\* the partition in which an absent child is a no-op
RECURSIVE SkippingWalk(_, _, _, _, _)
SkippingWalk(r, b, cur, lev, level) ==
    IF r = nullptr THEN b
    ELSE IF lev = level THEN [b EXCEPT ![cur] = @ \o PreOrder(r)]
    ELSE LET b1 == [b EXCEPT ![cur] = Append(@, nodes_[r].point_.indx_)]
             b2 == SkippingWalk(nodes_[r].left_, b1, 2 * cur, lev + 1, level)
         IN  SkippingWalk(nodes_[r].right_, b2, 2 * cur + 1, lev + 1, level)

RECURSIVE TotalMass(_)
TotalMass(I) ==
    IF I = {} THEN 0
    ELSE LET i == CHOOSE x \in I : TRUE
         IN  nodes_[i].point_.mass_ + TotalMass(I \ {i})

returned(op) == ret.op = op /\ ret.status = "ok"

----------------------------------------------------------------------------
(* Properties *)

\* C1: a nearestN(q, N) that returns hands back N points (all of them when
\* the tree holds fewer), each an indexed node kept under its own squared
\* distance to q, and their distances are the N smallest of a brute-force
\* scan of all indexed points, equal distances included.
C1_NearestIsBruteForce ==
    returned("nearestN") =>
        LET m == ret.best_.map
        IN  /\ \A k \in DOMAIN m :
                  /\ m[k] \in DOMAIN nodes_
                  /\ distance(nodes_[m[k]].point_, ret.pt) = k
            /\ Ascending(DOMAIN m)
                  = Prefix(SortedDistances(DOMAIN nodes_, ret.pt), ret.N)

\* C2: the buckets of getPartition(L) hold every indexed id exactly once
\* and no other id.
C2_PartitionComplete ==
    ret.op = "getPartition" =>
        /\ ret.status = "ok"
        /\ \A id \in IndexedIds : Occurrences(ret.buckets, id) = 1
        /\ \A c \in DOMAIN ret.buckets : \A i \in 1..Len(ret.buckets[c]) :
              ret.buckets[c][i] \in IndexedIds

\* C3: in the built tree every node at depth k has, on axis k mod D, no
\* larger coordinate in its left subtree and no smaller one in its right
\* subtree.
RECURSIVE Ordered(_, _)
Ordered(r, k) ==
    \/ r = nullptr
    \/ LET a  == k % dimensions
           nd == nodes_[r]
       IN  /\ \A i \in subtree(nd.left_) :
                 get(nodes_[i].point_, a) <= get(nd.point_, a)
           /\ \A i \in subtree(nd.right_) :
                 get(nodes_[i].point_, a) >= get(nd.point_, a)
           /\ Ordered(nd.left_, k + 1)
           /\ Ordered(nd.right_, k + 1)

C3_BuildOrdered == pc = "built" => Ordered(root_, 0)

\* C3 witness: a built tree of at least four points, two of which share a
\* coordinate value, whose nodes the build has moved.
C3_Witness ==
    /\ pc = "built"
    /\ size(nodes_) >= 4
    /\ \E i \in DOMAIN nodes_ : nodes_[i].point_.indx_ # i
    /\ \E i, j \in DOMAIN nodes_ :
          i # j /\ get(nodes_[i].point_, 0) = get(nodes_[j].point_, 0)
    /\ subtree(root_) = DOMAIN nodes_

\* C4: once more than N pairs were added to a Cache of capacity N, it holds
\* exactly N entries, and their keys are the N smallest keys added.
C4_KeepsNSmallest ==
    Len(adds) > cache.max_size =>
        /\ size(cache.map) = cache.max_size
        /\ Ascending(DOMAIN cache.map)
              = Prefix(SortedKeys(1..Len(adds)), cache.max_size)

\* C5: while the capacity is not reached, two pairs added with the same key
\* and different node references are both entries of the Cache.
C5_EqualKeysCoexist ==
    Len(adds) <= cache.max_size =>
        \A i, j \in 1..Len(adds) :
            (adds[i][1] = adds[j][1] /\ adds[i][2] # adds[j][2]) =>
                {adds[i], adds[j]} \subseteq Entries(cache.map)

\* C6: a Cache never holds more entries than its capacity, and an add()
\* that takes it over the capacity removes the entry with the largest key.
C6_AddStep ==
    adds' # adds =>
        LET K == (DOMAIN cache.map) \cup {adds'[Len(adds')][1]}
        IN  /\ size(cache'.map) <= cache'.max_size
            /\ Cardinality(K) > cache.max_size =>
                  DOMAIN cache'.map = K \ {CHOOSE k \in K : \A j \in K : j <= k}
            /\ Cardinality(K) <= cache.max_size => DOMAIN cache'.map = K

C6_BoundedEvictsLargest ==
    [](size(cache.map) <= cache.max_size) /\ [][C6_AddStep]_vars

\* C6 witness: a Cache of capacity at least two that is full after more
\* adds than its capacity, the last of which was turned away as the largest.
C6_Witness ==
    /\ cache.max_size >= 2
    /\ Len(adds) > cache.max_size
    /\ size(cache.map) = cache.max_size
    /\ adds[Len(adds)][1] \notin DOMAIN cache.map

\* C7: on a tree built from zero points every query fails with the logic
\* error "tree is empty".
C7_EmptyTreeThrows ==
    (pc = "built" /\ size(nodes_) = 0 /\ ret.op # "none") =>
        /\ ret.status = "logic_error"
        /\ ret.what = "tree is empty"

\* C8: on a non-empty tree getPartition(level) returns exactly 2^level
\* buckets, indexed 0..2^level-1.
C8_TwoToLevelBuckets ==
    (ret.op = "getPartition" /\ size(nodes_) > 0) =>
        /\ ret.status = "ok"
        /\ DOMAIN ret.buckets = 0..(shl1(ret.level) - 1)

\* C9: on a non-empty tree getPartition completes normally and an absent
\* child adds nothing to any bucket.
C9_AbsentChildSkipped ==
    (ret.op = "getPartition" /\ size(nodes_) > 0) =>
        /\ ret.status = "ok"
        /\ ret.buckets = SkippingWalk(root_,
                             [i \in 0..(shl1(ret.level) - 1) |-> <<>>],
                             0, 0, ret.level)

\* C10: of a nearestN that returns, the best point is the point of the
\* smallest key of the result set, the weight is the sum of the masses of
\* its entries, and the radius squared is its largest key.
C10_ResultAssembly ==
    returned("nearestN") =>
        LET m  == ret.best_.map
            lo == CHOOSE k \in DOMAIN m : \A j \in DOMAIN m : k <= j
            hi == CHOOSE k \in DOMAIN m : \A j \in DOMAIN m : j <= k
        IN  /\ ret.point = nodes_[m[lo]].point_
            /\ ret.wgt = TotalMass({m[k] : k \in DOMAIN m})
            /\ ret.radius.floor * ret.radius.floor + ret.radius.rem = hi
            /\ ret.radius.rem <= 2 * ret.radius.floor

\* C10 witness: a nearestN that returned three entries whose best point is
\* not the root and whose radius is no whole number.
C10_Witness ==
    /\ returned("nearestN")
    /\ size(ret.best_.map) = 3
    /\ ret.point # nodes_[root_].point_
    /\ ret.radius.rem > 0
    /\ ret.wgt > 3

\* the order of two square roots
RadiusLeq(r1, r2) ==
    r1.floor < r2.floor \/ (r1.floor = r2.floor /\ r1.rem <= r2.rem)

\* C11: on one non-empty tree and for one query point, a nearestN that asks
\* for more neighbours returns a radius that is no smaller: for
\* 1 <= N1 <= N2, radius(N1) <= radius(N2).  Checked on the caller that
\* asks twice for the same point, on trees of up to MaxRadPts points.
C11_RadiusMonotone ==
    (/\ prev.op = "nearestN" /\ prev.status = "ok"
     /\ returned("nearestN")
     /\ size(nodes_) > 0
     /\ prev.pt = ret.pt
     /\ 1 <= prev.N /\ prev.N <= ret.N) =>
        RadiusLeq(prev.radius, ret.radius)

\* the pruning tests of the call r at which the result set was full and the
\* far subtree, of two nodes or more, was skipped
FullSkips(r) ==
    {i \in 1..Len(r.events) :
        /\ r.events[i].e = "test"
        /\ r.events[i].skip
        /\ r.events[i].size = r.N
        /\ Cardinality(subtree(r.events[i].far)) >= 2}

\* the nodes the search of the call r entered
Entered(r) == {r.events[i].node : i \in {j \in 1..Len(r.events) : r.events[j].e = "visit"}}

\* C11 witness: two nearestN calls for the same point, for two neighbours
\* and then for three; the first skips, with its result set full, a far
\* subtree of two nodes that the second searches to the end, and the second
\* returns three entries and a strictly larger radius.
C11_Witness ==
    /\ prev.op = "nearestN" /\ prev.status = "ok"
    /\ returned("nearestN")
    /\ prev.pt = ret.pt
    /\ prev.N = 2 /\ ret.N = 3
    /\ size(ret.best_.map) = 3
    /\ \E i \in FullSkips(prev) : subtree(prev.events[i].far) \subseteq Entered(ret)
    /\ ~RadiusLeq(ret.radius, prev.radius)

\* the number of nodes the search of the call r visited
VisitsOf(r) == Cardinality({i \in 1..Len(r.events) : r.events[i].e = "visit"})

\* C13: in a sequence of nearestN / nearestList calls on a non-empty tree
\* the visited counter after a call is the number of nodes this call
\* visited, whatever the calls before it counted, and visited() returns it.
C13_VisitedCountsThisCall ==
    /\ (ret.op \in {"nearestN", "nearestList"} /\ ret.status = "ok") =>
           visited_ = VisitsOf(ret)
    /\ (/\ ret.op = "visited"
        /\ prev.op \in {"nearestN", "nearestList"} /\ prev.status = "ok") =>
           ret.count = VisitsOf(prev)

\* C13 witness: a search that visited one node, after a search on the same
\* tree that visited two.
C13_Witness ==
    /\ prev.op \in {"nearestN", "nearestList"} /\ prev.status = "ok"
    /\ ret.op \in {"nearestN", "nearestList"} /\ ret.status = "ok"
    /\ VisitsOf(prev) = 2
    /\ VisitsOf(ret) = 1
    /\ visited_ = 1

\* the result of nearestN(pt, N) run alone on the tree
Alone(pt, N) == {nearestN_return(pt, N, s) : s \in {x \in searches(pt, N) : ~x.killed}}

\* C14: under every interleaving of the steps of two nearestN calls that
\* run at the same time on one tree, each with its own result set, each
\* call returns the result set, best point, weight and radius that it
\* returns when it runs alone.
C14_ConcurrentAsAlone ==
    \A t \in Threads :
        (par.th[t].pc = "done" /\ root_ # nullptr) =>
            \E r \in Alone(par.th[t].pt, par.th[t].N) :
                /\ par.th[t].ret.status = "ok"
                /\ par.th[t].ret.best_ = r.best_
                /\ par.th[t].ret.point = r.point
                /\ par.th[t].ret.wgt = r.wgt
                /\ par.th[t].ret.radius = r.radius

\* C14 witness: two calls with different arguments have returned, each
\* after two nodes, and their increments of the counter ran into each
\* other: the counter stands at one.
C14_Witness ==
    /\ \A t \in Threads : par.th[t].pc = "done" /\ par.th[t].visits = 2
    /\ par.th[1].pt # par.th[2].pt
    /\ par.th[1].N # par.th[2].N
    /\ par.th[1].ret.best_ # par.th[2].ret.best_
    /\ visited_ = 1

\* C15: after construction no query changes the tree: every step of
\* nearestN, nearestList, getPartition, getDist, empty and visited leaves
\* the root reference and the node vector (the number of nodes, every
\* node's point and child references) as they were; of the tree's fields a
\* query changes the visited counter at most.
C15_QueriesLeaveTree ==
    [][pc = "built" => (root_' = root_ /\ nodes_' = nodes_)]_vars

\* C15 witness: a search and then a partition have returned on a tree of
\* two nodes or more, and the search has changed the visited counter.
C15_Witness ==
    /\ prev.op = "nearestList" /\ prev.status = "ok"
    /\ returned("getPartition")
    /\ size(nodes_) >= 2
    /\ visited_ >= 2

\* C16: nearestN or nearestList with N < 1 on a non-empty tree comes back
\* to the caller as an error, never as a normal result and never as the
\* end of the process.
C16_BadNIsError ==
    (/\ ret.op \in {"nearestN", "nearestList"}
     /\ size(nodes_) > 0
     /\ ret.N < 1) =>
        ret.status \notin {"ok", "killed"}

\* C17: on a non-empty tree and for N >= 1, nearestList(q, N) returns the
\* result set and the radius that nearestN(q, N) returns, and its list
\* holds the points of that result set, one element per entry.
C17_ListOfSameSet ==
    (/\ prev.op = "nearestN" /\ prev.status = "ok"
     /\ returned("nearestList")
     /\ size(nodes_) > 0
     /\ prev.pt = ret.pt
     /\ prev.N = ret.N /\ ret.N >= 1) =>
        LET m    == prev.best_.map
            keys == Ascending(DOMAIN m)
        IN  /\ ret.best_ = prev.best_
            /\ ret.radius = prev.radius
            /\ Len(ret.pts) = size(m)
            /\ \A i \in 1..Len(keys) : ret.pts[i] = nodes_[m[keys[i]]].point_

\* C17 witness: nearestN and then nearestList with the same arguments, each
\* with a result set of two entries, the nearest of which is not the root.
C17_Witness ==
    /\ prev.op = "nearestN" /\ prev.status = "ok"
    /\ returned("nearestList")
    /\ prev.pt = ret.pt
    /\ prev.N = ret.N
    /\ Len(ret.pts) = 2
    /\ ret.pts[1] # nodes_[root_].point_

\* the nodes met on the paths of at most fuel nodes that start at r
RECURSIVE Reach(_, _)
Reach(r, fuel) ==
    IF r = nullptr \/ fuel = 0 THEN {}
    ELSE {r} \cup Reach(nodes_[r].left_, fuel - 1) \cup Reach(nodes_[r].right_, fuel - 1)

\* the number of paths of at most fuel + 1 nodes that start at r, the path
\* of r alone included
RECURSIVE Paths(_, _)
Paths(r, fuel) ==
    IF r = nullptr THEN 0
    ELSE IF fuel = 0 THEN 1
    ELSE 1 + Paths(nodes_[r].left_, fuel - 1) + Paths(nodes_[r].right_, fuel - 1)

\* C18: after construction from n points the nodes reachable from the root
\* are exactly the n nodes of nodes_, each at the end of exactly one path
\* (as many paths as nodes: no node under two parents, no cycle), the
\* points of the nodes are the input points with their multiplicities, and
\* the root is absent exactly if n = 0.
C18_TreeSpansInput ==
    pc = "built" =>
        LET n == Len(input)
        IN  /\ size(nodes_) = n
            /\ DOMAIN nodes_ = 0..(n - 1)
            /\ Reach(root_, n) = DOMAIN nodes_
            /\ Paths(root_, n) = n
            /\ \A j \in 1..n :
                   Cardinality({i \in DOMAIN nodes_ : nodes_[i].point_ = input[j]})
                 = Cardinality({k \in 1..n : input[k] = input[j]})
            /\ \A i \in DOMAIN nodes_ : \E j \in 1..n : nodes_[i].point_ = input[j]
            /\ (root_ = nullptr) <=> (n = 0)

\* C18 witness: a tree built from four points, two of them at the same
\* place, whose root has both children and a grandchild.
C18_Witness ==
    /\ pc = "built"
    /\ size(nodes_) = 4
    /\ \E j, k \in 1..Len(input) : j < k /\ input[j].coords_ = input[k].coords_
    /\ nodes_[root_].left_ # nullptr
    /\ nodes_[root_].right_ # nullptr
    /\ nodes_[nodes_[root_].left_].left_ # nullptr

\* a search of nearestN or nearestList has returned
searched == ret.op \in {"nearestN", "nearestList"} /\ ret.status = "ok"

\* the prune tests of the returned search that skipped the far subtree
Skips == {i \in 1..Len(ret.events) : ret.events[i].e = "test" /\ ret.events[i].skip}

\* C19: pruning is sound: when the search skips the far subtree of a node,
\* no point of that subtree is nearer to the query (in squared distance)
\* than the largest key of the result set at that moment, hence none is
\* nearer than the largest key of the final result set.
C19_PruneSound ==
    (searched /\ ret.N >= 1) =>
        \A i \in Skips : \A x \in subtree(ret.events[i].far) :
            /\ distance(nodes_[x].point_, ret.pt) >= ret.events[i].worst
            /\ distance(nodes_[x].point_, ret.pt) >= rbegin_key(ret.best_.map)

\* C19 witness: a search for two neighbours or more that skipped a far
\* subtree of two nodes, one of them exactly as far from the query as the
\* largest key of the full result set.
C19_Witness ==
    /\ searched
    /\ ret.N >= 2
    /\ \E i \in Skips :
           /\ Cardinality(subtree(ret.events[i].far)) = 2
           /\ ret.events[i].size >= ret.N
           /\ \E x \in subtree(ret.events[i].far) :
                  distance(nodes_[x].point_, ret.pt) = ret.events[i].worst

\* the positions of the node visits and of the prune tests in the record
\* of the returned search
VisitsAt == {i \in 1..Len(ret.events) : ret.events[i].e = "visit"}

TestsAt == {i \in 1..Len(ret.events) : ret.events[i].e = "test"}

\* C20: at every visited node the search takes the near child first, the
\* left child if dx > 0 and the right child otherwise (so for dx = 0 too):
\* every visit in the near subtree comes before the node's prune test and
\* every visit in the far subtree after it, and between the visit of the
\* node and its prune test the search is in the near subtree only.
C20_NearChildFirst ==
    (searched /\ ret.N >= 1) =>
        LET visits == VisitsAt
            tests  == TestsAt
        IN  \A j \in tests :
            LET r     == ret.events[j].node
                dx    == ret.events[j].dx
                near  == IF dx > 0 THEN nodes_[r].left_ ELSE nodes_[r].right_
                far   == IF dx > 0 THEN nodes_[r].right_ ELSE nodes_[r].left_
                nears == subtree(near)
                fars  == subtree(far)
            IN  \E i \in visits :
                    /\ ret.events[i].node = r
                    /\ i < j
                    /\ dx = get(nodes_[r].point_, ret.events[i].index)
                            - get(ret.pt, ret.events[i].index)
                    /\ \A k \in visits :
                        /\ (ret.events[k].node \in nears) => (i < k /\ k < j)
                        /\ (ret.events[k].node \in fars) => j < k
                        /\ (i < k /\ k < j) => ret.events[k].node \in nears
                    /\ \A k \in tests :
                        (ret.events[k].node \in nears) => (i < k /\ k < j)

\* C20 witness: a search met a node on whose splitting plane the query
\* lies (dx = 0), with both children present, and visited both subtrees.
C20_Witness ==
    /\ searched
    /\ \E j \in TestsAt :
           LET r == ret.events[j].node
           IN  /\ ret.events[j].dx = 0
               /\ nodes_[r].left_ # nullptr
               /\ nodes_[r].right_ # nullptr
               /\ \E k \in VisitsAt : k < j /\ ret.events[k].node = nodes_[r].right_
               /\ \E k \in VisitsAt : k > j /\ ret.events[k].node = nodes_[r].left_

\* the branches (0 = left, 1 = right) of the path from r down to the node x
RECURSIVE Branches(_, _)
Branches(r, x) ==
    IF r = x THEN <<>>
    ELSE IF x \in subtree(nodes_[r].left_) THEN <<0>> \o Branches(nodes_[r].left_, x)
    ELSE <<1>> \o Branches(nodes_[r].right_, x)

\* the binary number whose digits are the sequence p
RECURSIVE Binary(_)
Binary(p) ==
    IF p = <<>> THEN 0 ELSE 2 * Binary(SubSeq(p, 1, Len(p) - 1)) + p[Len(p)]

\* the sequence a occurs in the sequence b as a run of neighbours
Infix(a, b) ==
    \E o \in 0..Len(b) :
        /\ o + Len(a) <= Len(b)
        /\ \A i \in 1..Len(a) : b[o + i] = a[i]

\* C21: in the buckets of a getPartition(level) that completed, the id of a
\* node lies in the bucket whose index is the binary number of the first
\* `level` branches (0 left, 1 right) of its path from the root, all of its
\* branches if it is less deep than `level`; the ids of the subtree of a
\* node at depth `level` stand in that bucket in pre-order.
C21_BucketOfPath ==
    returned("getPartition") =>
        \A x \in subtree(root_) :
            LET p == Branches(root_, x)
                c == Binary(Prefix(p, ret.level))
            IN  /\ c \in DOMAIN ret.buckets
                /\ \E i \in 1..Len(ret.buckets[c]) :
                       ret.buckets[c][i] = nodes_[x].point_.indx_
                /\ (Len(p) = ret.level) => Infix(PreOrder(x), ret.buckets[c])

\* C21 witness: a getPartition(1) that completed on a tree of four nodes:
\* bucket 0 holds the root and then the left subtree, a node and its left
\* child in pre-order, bucket 1 holds the right child.
C21_Witness ==
    /\ returned("getPartition")
    /\ ret.level = 1
    /\ size(nodes_) = 4
    /\ Len(ret.buckets[0]) = 3
    /\ Len(ret.buckets[1]) = 1
    /\ ret.buckets[0][1] = nodes_[root_].point_.indx_
    /\ ret.buckets[1][1] = nodes_[nodes_[root_].right_].point_.indx_

\* C22: a nearestN call with N >= 1 on a tree of n >= 1 points runs to its
\* return, enters no node twice, and leaves 1 <= visited() <= n.
C22_TerminatesVisitingOnce ==
    /\ [](\A i, j \in 1..Len(par.th[1].seen) :
              (par.th[1].seen[i] = par.th[1].seen[j]) => (i = j))
    /\ []((par.th[1].pc = "done" /\ root_ # nullptr) =>
              /\ par.th[1].ret.status = "ok"
              /\ visited_ = Len(par.th[1].seen)
              /\ 1 <= visited_
              /\ visited_ <= size(nodes_))
    /\ (par.th[1].pc = "load") ~> (par.th[1].pc = "done")

\* C22 witness: a call on a tree of three nodes has returned after it
\* entered two of them.
C22_Witness ==
    /\ par.th[1].pc = "done"
    /\ par.th[1].ret.status = "ok"
    /\ size(nodes_) = 3
    /\ visited_ = 2
    /\ Len(par.th[1].seen) = 2

\* both threads have returned from their calls on a non-empty tree
BothDone == root_ # nullptr /\ \A t \in Threads : par.th[t].pc = "done"

\* C23: the visited counter is one per tree and concurrent calls race on
\* it: after two calls that did not run at the same time it is the count
\* of one of them (the later), and only calls that overlap can leave it at
\* a value that is the count of neither, which an interleaving does.
C23_CounterRace ==
    (BothDone /\ \A t \in Threads : ~par.th[t].overlapped) =>
        \E t \in Threads : visited_ = par.th[t].visits

\* C23 witness: two calls that ran at the same time have returned and
\* visited() is the count of neither.
C23_Witness ==
    /\ BothDone
    /\ \A t \in Threads : par.th[t].overlapped
    /\ \A t \in Threads : visited_ # par.th[t].visits

\* C24: nearestN and nearestList on an empty tree throw the logic error
\* "tree is empty" before any other effect: the step of the call hands no
\* result set, point or list back and leaves the visited counter alone.
C24_EmptyThrowsFirst ==
    [][(/\ pc = "built"
        /\ root_ = nullptr
        /\ calls' < calls
        /\ ret'.op \in {"nearestN", "nearestList"}) =>
           /\ ret'.status = "logic_error"
           /\ ret'.what = "tree is empty"
           /\ ret'.best_ = NoRet.best_
           /\ ret'.point = NoRet.point
           /\ ret'.pts = <<>>
           /\ ret'.events = <<>>
           /\ visited_' = visited_]_vars

\* C24 witness: on the empty tree a nearestN and then a nearestList have
\* thrown, and the counter is as the constructor left it.
C24_Witness ==
    /\ pc = "built"
    /\ root_ = nullptr
    /\ prev.op = "nearestN" /\ prev.status = "logic_error"
    /\ ret.op = "nearestList" /\ ret.status = "logic_error"
    /\ ret.what = "tree is empty"
    /\ visited_ = 0

\* the number of nodes on the longest path from r downwards
RECURSIVE Height(_)
Height(r) ==
    IF r = nullptr THEN 0
    ELSE LET hl == Height(nodes_[r].left_)
             hr == Height(nodes_[r].right_)
         IN  1 + (IF hl > hr THEN hl ELSE hr)

\* floor(log2(n)) for n >= 1
FloorLog2(n) == CHOOSE k \in 0..n : 2 ^ k <= n /\ n < 2 ^ (k + 1)

\* C25: whatever the order of the input points, at every node of the built
\* tree the left subtree has as many nodes as the right subtree or one
\* more, and a tree of n >= 1 points has height floor(log2(n)) + 1.
C25_Balanced ==
    pc = "built" =>
        /\ \A x \in DOMAIN nodes_ :
               LET l == Cardinality(subtree(nodes_[x].left_))
                   r == Cardinality(subtree(nodes_[x].right_))
               IN  l - r \in {0, 1}
        /\ (size(nodes_) >= 1) => Height(root_) = FloorLog2(size(nodes_)) + 1

\* C25 witness: a tree of height three built from four points that came
\* in descending order of their first coordinate.
C25_Witness ==
    /\ pc = "built"
    /\ size(nodes_) = 4
    /\ Height(root_) = 3
    /\ \A j \in 1..3 : input[j].coords_[1] >= input[j + 1].coords_[1]
    /\ input[1].coords_[1] > input[4].coords_[1]

\* the axis on which make_tree selected the node x as the median: 0 for the
\* root r, and the next axis modulo D with every level below it
RECURSIVE BuildAxis(_, _, _)
BuildAxis(r, x, index) ==
    IF r = x THEN index
    ELSE IF x \in subtree(nodes_[r].left_)
    THEN BuildAxis(nodes_[r].left_, x, (index + 1) % dimensions)
    ELSE BuildAxis(nodes_[r].right_, x, (index + 1) % dimensions)

\* C26: build and search agree on the splitting axis: at every node the
\* search visits it computes dx on the axis on which construction selected
\* that node as median, the depth of the node modulo D, from axis 0 at the
\* root.
C26_AxesAgree ==
    (searched /\ ret.N >= 1) =>
        /\ \A i \in VisitsAt :
               LET x == ret.events[i].node
               IN  /\ ret.events[i].index = BuildAxis(root_, x, 0)
                   /\ ret.events[i].index = Len(Branches(root_, x)) % dimensions
        /\ \A j \in TestsAt :
               LET x == ret.events[j].node
                   a == BuildAxis(root_, x, 0)
               IN  ret.events[j].dx = get(nodes_[x].point_, a) - get(ret.pt, a)

\* C26 witness: a search went down to a grandchild of the root, which it
\* met on axis 0 again, through a child it met on axis 1.
C26_Witness ==
    /\ searched
    /\ \E i, k \in VisitsAt :
           /\ Len(Branches(root_, ret.events[i].node)) = 2
           /\ ret.events[i].index = 0
           /\ Len(Branches(root_, ret.events[k].node)) = 1
           /\ ret.events[k].index = 1

\* C27: on a tree of n points a nearestN(q, N) with n < N never prunes: it
\* visits all n nodes, the result set holds every indexed point, the weight
\* is the total mass of the tree and the radius is the distance from q to
\* the farthest point.
C27_FewerPointsThanN ==
    (returned("nearestN") /\ size(nodes_) >= 1 /\ size(nodes_) < ret.N) =>
        LET m   == ret.best_.map
            far == CHOOSE x \in DOMAIN nodes_ : \A y \in DOMAIN nodes_ :
                       distance(nodes_[y].point_, ret.pt) <= distance(nodes_[x].point_, ret.pt)
        IN  /\ Skips = {}
            /\ visited_ = size(nodes_)
            /\ {m[k] : k \in DOMAIN m} = DOMAIN nodes_
            /\ ret.wgt = TotalMass(DOMAIN nodes_)
            /\ ret.radius = sqrt(distance(nodes_[far].point_, ret.pt))

\* C28: every bucket index that walk or accum writes to during
\* getPartition(level) lies in [0, 2^level), whether the call returns or
\* not: no write falls outside the bucket sequence.
C28_WritesInRange ==
    (ret.op = "getPartition") =>
        /\ \A c \in ret.writes : 0 <= c /\ c < 2 ^ ret.level
        /\ (ret.status = "ok") => (ret.writes \subseteq DOMAIN ret.buckets)

\* C28 witness: a getPartition(1) on a tree of four nodes returned and has
\* written to both buckets.
C28_Witness ==
    /\ returned("getPartition")
    /\ ret.level = 1
    /\ size(nodes_) = 4
    /\ ret.writes = {0, 1}
    /\ Len(ret.buckets[0]) + Len(ret.buckets[1]) = 4

\* C29: in a nearestN search with N >= 1 a visited node at squared distance
\* d is offered to the result set exactly if the set holds fewer than N
\* entries or d is strictly less than its largest key; a node whose d
\* equals the largest key of a full set leaves the set as it is; and after
\* no visit does the set hold more than N entries.
C29_OfferedIff ==
    (searched /\ ret.N >= 1) =>
        \A i \in VisitsAt :
            LET v == ret.events[i]
            IN  /\ v.offered <=> (v.size < ret.N \/ v.d < v.worst)
                /\ (~v.offered) => v.same
                /\ (v.size >= ret.N /\ v.d = v.worst) => v.same
                /\ v.size <= ret.N
                /\ v.after <= ret.N

\* C29 witness: a search met, with a full result set of two entries, a
\* node exactly as far as the farthest entry and did not offer it, and
\* another node that it offered and that replaced the farthest entry.
C29_Witness ==
    /\ searched
    /\ ret.N = 2
    /\ \E i, j \in VisitsAt :
           /\ ret.events[i].size = 2
           /\ ret.events[i].d = ret.events[i].worst
           /\ ~ret.events[i].offered
           /\ ret.events[j].size = 2
           /\ ret.events[j].offered
           /\ ret.events[j].after = 2
           /\ ~ret.events[j].same

\* C30: resize(M) changes the capacity only and leaves every stored entry
\* as it is, without trimming the set; an add() takes at most one entry
\* out and leaves the capacity alone.  So a set resized to below its size
\* can hold more than M entries, further add() calls notwithstanding.
C30_ResizeKeepsEntries ==
    [][/\ (adds' = adds) =>
              /\ cache'.map = cache.map
              /\ cache'.max_size = ret'.N
       /\ (adds' # adds) =>
              /\ Cardinality((DOMAIN cache.map) \ (DOMAIN cache'.map)) <= 1
              /\ size(cache'.map) >= size(cache.map) - 1
              /\ cache'.max_size = cache.max_size]_vars

\* C30 witness: a set of two entries was resized to capacity 1 and, two
\* add() calls later, holds two entries, more than its capacity.
C30_Witness ==
    /\ ret.op = "resize"
    /\ ret.N = 1
    /\ cache.max_size = 1
    /\ ret.count = 2
    /\ Len(adds) = ret.count + 2
    /\ size(cache.map) = 2

=============================================================================
